---- MODULE Spec2Model ----
(***************************************************************************)
(* Model of toot/cli/post.py: the `post` command, its text resolver        *)
(* (_get_status_text), scheduling resolver (_get_scheduled_at), media      *)
(* uploader (_upload_media, _do_upload) and processing waiter              *)
(* (_wait_until_all_processed, _wait_until_processed).                     *)
(*                                                                         *)
(* Strings are sequences of one-character strings.  Python's None is the   *)
(* distinguished sequence None.  File handles are positive integers.       *)
(***************************************************************************)
EXTENDS Integers, Sequences, FiniteSets, TLC

VARIABLES
    pc,              \* position in post(): start, upload, wait_item, poll, text, sched, submit, done, failed
    server,          \* environment: "instant" (upload results carry the URL) or "async"
    text,            \* argument `text`
    editor,          \* option --editor
    isatty,          \* sys.stdin.isatty()
    stdin,           \* what sys.stdin.read() returns when stdin is piped
    media,           \* option --media: sequence of file handles
    description,     \* option --description: sequence of strings
    thumbnail,       \* option --thumbnail: sequence of file handles
    scheduled_at,    \* option --scheduled-at
    scheduled_in,    \* option --scheduled-in, after validate_duration (NoDuration stands for None)
    utcnow,          \* what datetime.now(timezone.utc) returned, [sec, usec]
    uploaded_media,  \* _upload_media: list of records [id, url]
    media_ids,       \* post(): result of _upload_media
    status_text,     \* post(): result of _get_status_text
    resolved_at,     \* post(): result of _get_scheduled_at
    clock,           \* time(), in seconds since the command started
    start_time,      \* _wait_until_all_processed: start_time
    idx,             \* _wait_until_all_processed: position of the for loop (1-based)
    cur_url,         \* _wait_until_processed: media["url"] of the local record
    error,           \* message of the ClickException that ended the run, or None
    upload_calls,    \* history: arguments of every api.upload_media call, in order
    seen_url,        \* history: ids of the records seen with a populated URL
    fetched,         \* history: ids passed to api.get_media
    get_media_calls, \* history: number of api.get_media calls
    sleeps,          \* history: number of sleep(1) calls
    slept_for,       \* history: ids of the records a sleep was taken for
    recFetches,      \* history: api.get_media calls for the record being waited on
    recSleeps,       \* history: sleep(1) calls for the record being waited on
    echo_waiting,    \* history: "Waiting for media to finish processing..." was printed
    post_calls,      \* history: arguments of every api.post_status call
    text_source,     \* history: which source _get_status_text took the body from
    editor_out,      \* history: what editor_input returned
    prompt_out,      \* history: what multiline_input returned
    tmp_deleted      \* history: delete_tmp_status_file() has been executed

vars == << pc, server, text, editor, isatty, stdin, media, description, thumbnail,
           scheduled_at, scheduled_in, utcnow, uploaded_media, media_ids, status_text,
           resolved_at, clock, start_time, idx, cur_url, error, upload_calls, seen_url, fetched,
           get_media_calls, sleeps, slept_for, recFetches, recSleeps,
           echo_waiting, post_calls, text_source, editor_out, prompt_out, tmp_deleted >>

\* ---------------------------------------------------------------- bounds
MaxMedia == 5
MaxList == 4

\* ---------------------------------------------------------------- program constants
MaxAttachments == 4
Timeout == 60
SleepSeconds == 1

\* ---------------------------------------------------------------- values
None == << "#None" >>
NoFile == 0

Truthy(s) == s # None /\ s # << >>

IsSpace(c) == c = " "

RECURSIVE RStrip(_)
RStrip(s) ==
    IF s = << >> THEN << >>
    ELSE IF IsSpace(s[Len(s)]) THEN RStrip(SubSeq(s, 1, Len(s) - 1))
    ELSE s

RECURSIVE LStrip(_)
LStrip(s) ==
    IF s = << >> THEN << >>
    ELSE IF IsSpace(s[1]) THEN LStrip(Tail(s))
    ELSE s

Strip(s) == LStrip(RStrip(s))

RECURSIVE Repeat(_, _)
Repeat(c, n) == IF n = 0 THEN << >> ELSE << c >> \o Repeat(c, n - 1)

\* The i-th file, description and thumbnail given on the command line.
FileAt(i) == i
DescAt(i) ==
    IF i % 3 = 1 THEN << " " >> \o Repeat("d", i) \o << " " >>
    ELSE IF i % 3 = 2 THEN Repeat("d", i) \o << " ", " " >>
    ELSE Repeat("d", i)
ThumbAt(i) == 100 + i

Files(n) == [i \in 1..n |-> FileAt(i)]
Descs(n) == [i \in 1..n |-> DescAt(i)]
Thumbs(n) == [i \in 1..n |-> ThumbAt(i)]

\* The id the server gives to an uploaded file.
MediaId(file) == 20 + file

TextValues == { None, << >>, << "a" >> }
EditorValues == { None, << "v", "i" >> }
StdinValues == { << >>, << "b" >>, << "b", " " >>, << " " >> }
EditorOutputs(seed) == { IF seed = None THEN << >> ELSE seed, << "e" >>, << >> }
PromptOutputs == { << >>, << "m" >> }
ScheduledAtValues == { None, << >>, << "2", "0", "3", "0" >> }
NoDuration == 0 - 1
ScheduledInValues == { NoDuration, 300, 600 }
NowValues == { [sec |-> 1000, usec |-> 0], [sec |-> 1000, usec |-> 500000],
               [sec |-> 2000, usec |-> 250000] }
NoTime == [sec |-> 0, usec |-> 0]

\* ---------------------------------------------------------------- post(), lines 132-136
EditorWithoutTty(ed, tty) == Truthy(ed) /\ ~tty

TooManyFilesOffByOne(m) == Len(m) > MaxAttachments + 1

TooManyFiles(m) == Len(m) > MaxAttachments

ErrEditor == << "Cannot run editor if not in tty." >>
ErrTooMany == << "Cannot attach more than 4 files." >>
ErrEmpty == << "You must specify either text or media to post." >>
ErrTimeout == << "Media not processed by server after 60 seconds. Aborting." >>

Fail(msg) == /\ error' = msg
             /\ pc' = "failed"

PostValidate ==
    /\ pc = "start"
    /\ \/ /\ EditorWithoutTty(editor, isatty)
          /\ Fail(ErrEditor)
       \/ /\ ~EditorWithoutTty(editor, isatty)
          /\ TooManyFiles(media)
          /\ Fail(ErrTooMany)
       \/ /\ ~EditorWithoutTty(editor, isatty)
          /\ ~TooManyFiles(media)
          /\ pc' = "upload"
          /\ UNCHANGED error
    /\ UNCHANGED << server, text, editor, isatty, stdin, media, description, thumbnail,
                    scheduled_at, scheduled_in, utcnow, uploaded_media, media_ids,
                    status_text, resolved_at, clock, start_time, idx, cur_url,
                    upload_calls, seen_url, fetched, get_media_calls, sleeps, slept_for,
                    recFetches, recSleeps, echo_waiting, post_calls, text_source,
                    editor_out, prompt_out, tmp_deleted >>

\* ---------------------------------------------------------------- _upload_media, _do_upload
PairedDescriptionUnstripped(descriptions, i) ==
    IF i <= Len(descriptions) THEN descriptions[i] ELSE None

PairedDescription(descriptions, i) ==
    IF i <= Len(descriptions) THEN Strip(descriptions[i]) ELSE None

PairedThumbnail(thumbnails, i) ==
    IF i <= Len(thumbnails) THEN thumbnails[i] ELSE NoFile

\* What api.upload_media may answer for the URL: populated (TRUE) or not yet.
UploadUrls == IF server = "instant" THEN { TRUE } ELSE BOOLEAN

\* What api.get_media may answer for the URL.
FetchUrls == BOOLEAN

MediaIds(ups) == [i \in 1..Len(ups) |-> ups[i].id]

\* One iteration of the for loop of _upload_media.
Upload ==
    /\ pc = "upload"
    /\ Len(uploaded_media) < Len(media)
    /\ LET i == Len(uploaded_media) + 1
           call == [file |-> media[i],
                    description |-> PairedDescription(description, i),
                    thumbnail |-> PairedThumbnail(thumbnail, i)]
       IN  /\ upload_calls' = Append(upload_calls, call)
           /\ \E url \in UploadUrls :
                 /\ uploaded_media' = Append(uploaded_media,
                                             [id |-> MediaId(media[i]), url |-> url])
                 /\ seen_url' = IF url THEN seen_url \cup { MediaId(media[i]) }
                                 ELSE seen_url
    /\ UNCHANGED << pc, server, text, editor, isatty, stdin, media, description, thumbnail,
                    scheduled_at, scheduled_in, utcnow, media_ids,
                    status_text, resolved_at, clock, start_time, idx, cur_url, error,
                    fetched, get_media_calls, sleeps, slept_for,
                    recFetches, recSleeps, echo_waiting, post_calls, text_source,
                    editor_out, prompt_out, tmp_deleted >>

\* ---------------------------------------------------------------- _wait_until_all_processed
AnyProcessed(ups) == \E i \in 1..Len(ups) : ups[i].url

AllProcessed(ups) == \A i \in 1..Len(ups) : ups[i].url

\* The call of _wait_until_all_processed up to the start of its for loop.
WaitAll ==
    /\ pc = "upload"
    /\ Len(uploaded_media) = Len(media)
    /\ IF AllProcessed(uploaded_media)
       THEN /\ media_ids' = MediaIds(uploaded_media)
            /\ pc' = "text"
            /\ UNCHANGED << start_time, echo_waiting, idx >>
       ELSE /\ start_time' = clock
            /\ echo_waiting' = TRUE
            /\ idx' = 1
            /\ pc' = "wait_item"
            /\ UNCHANGED media_ids
    /\ UNCHANGED << server, text, editor, isatty, stdin, media, description, thumbnail,
                    scheduled_at, scheduled_in, utcnow, uploaded_media,
                    status_text, resolved_at, clock, cur_url, error,
                    upload_calls, seen_url, fetched, get_media_calls, sleeps, slept_for,
                    recFetches, recSleeps, post_calls, text_source,
                    editor_out, prompt_out, tmp_deleted >>

StartTimeReset(start, now) == now

\* The start_time the for loop hands to _wait_until_processed for each record.
StartTimeArg(start, now) == start

\* ---------------------------------------------------------------- _wait_until_processed
AlreadyProcessedIgnored(rec) == FALSE

AlreadyProcessed(rec) == rec.url

DeadlinePassed(now, start) == now > start + Timeout

\* api.get_media(app, user, media["id"]) for the record at position idx.
GetMedia ==
    /\ \E url \in FetchUrls :
          /\ cur_url' = url
          /\ seen_url' = IF url THEN seen_url \cup { uploaded_media[idx].id } ELSE seen_url
    /\ fetched' = fetched \cup { uploaded_media[idx].id }
    /\ get_media_calls' = get_media_calls + 1
    /\ recFetches' = recFetches + 1

FirstFetchAfterSleep ==
    /\ GetMedia
    /\ pc' = "poll"
    /\ clock' = clock + SleepSeconds
    /\ sleeps' = sleeps + 1
    /\ slept_for' = slept_for \cup { uploaded_media[idx].id }
    /\ recSleeps' = recSleeps + 1
    /\ UNCHANGED error

FirstFetchDeadlineFirst ==
    IF clock >= start_time + Timeout
    THEN /\ Fail(ErrTimeout)
         /\ UNCHANGED << cur_url, seen_url, fetched, get_media_calls, recFetches,
                         clock, sleeps, slept_for, recSleeps >>
    ELSE /\ GetMedia
         /\ pc' = "poll"
         /\ UNCHANGED << error, clock, sleeps, slept_for, recSleeps >>

\* The fetch before the while loop.
FirstFetch ==
    /\ GetMedia
    /\ pc' = "poll"
    /\ UNCHANGED << error, clock, sleeps, slept_for, recSleeps >>

\* The for loop of _wait_until_all_processed taking its next record, and
\* _wait_until_processed up to the first test of the while loop.
WaitItem ==
    /\ pc = "wait_item"
    /\ IF idx > Len(uploaded_media)
       THEN /\ media_ids' = MediaIds(uploaded_media)
            /\ pc' = "text"
            /\ UNCHANGED << idx, start_time, cur_url, seen_url, fetched, get_media_calls,
                            recFetches, error, clock, sleeps, slept_for, recSleeps >>
       ELSE /\ start_time' = StartTimeArg(start_time, clock)
            /\ IF AlreadyProcessed(uploaded_media[idx])
               THEN /\ idx' = idx + 1
                    /\ UNCHANGED << pc, media_ids, cur_url, seen_url, fetched,
                                    get_media_calls, recFetches, error, clock, sleeps,
                                    slept_for, recSleeps >>
               ELSE /\ FirstFetch
                    /\ UNCHANGED << idx, media_ids >>
    /\ UNCHANGED << server, text, editor, isatty, stdin, media, description, thumbnail,
                    scheduled_at, scheduled_in, utcnow, uploaded_media,
                    status_text, resolved_at, upload_calls,
                    echo_waiting, post_calls, text_source,
                    editor_out, prompt_out, tmp_deleted >>

\* One run of the body of the while loop: sleep, test the deadline, fetch again.
PollBody ==
    /\ clock' = clock + SleepSeconds
    /\ sleeps' = sleeps + 1
    /\ slept_for' = slept_for \cup { uploaded_media[idx].id }
    /\ recSleeps' = recSleeps + 1
    /\ IF DeadlinePassed(clock', start_time)
       THEN /\ Fail(ErrTimeout)
            /\ UNCHANGED << cur_url, seen_url, fetched, get_media_calls, recFetches >>
       ELSE /\ GetMedia
            /\ UNCHANGED << pc, error >>
    /\ UNCHANGED idx

\* The while loop of _wait_until_processed: its test, and its body or the return.
Poll ==
    /\ pc = "poll"
    /\ IF cur_url
       THEN /\ idx' = idx + 1
            /\ pc' = "wait_item"
            /\ recFetches' = 0
            /\ recSleeps' = 0
            /\ UNCHANGED << clock, sleeps, slept_for, cur_url, seen_url, fetched,
                            get_media_calls, error >>
       ELSE PollBody
    /\ UNCHANGED << server, text, editor, isatty, stdin, media, description, thumbnail,
                    scheduled_at, scheduled_in, utcnow, uploaded_media, media_ids,
                    status_text, resolved_at, start_time,
                    upload_calls, echo_waiting, post_calls, text_source,
                    editor_out, prompt_out, tmp_deleted >>

\* ---------------------------------------------------------------- _get_status_text
PipedTextAlways(t, tty, input) == IF ~tty THEN RStrip(input) ELSE t

\* text after the first if of _get_status_text (piped input read and right-stripped).
PipedText(t, tty, input) == IF ~Truthy(t) /\ ~tty THEN RStrip(input) ELSE t

UsesEditor(ed, tty) == tty /\ Truthy(ed)

UsesPrompt(t, ed, tty, m) == tty /\ ~Truthy(ed) /\ ~Truthy(t) /\ m = << >>

GetStatusText ==
    /\ pc = "text"
    /\ LET t == PipedText(text, isatty, stdin)
       IN  IF UsesEditor(editor, isatty)
           THEN /\ \E out \in EditorOutputs(t) :
                      /\ editor_out' = out
                      /\ status_text' = out
                /\ text_source' = "editor"
                /\ UNCHANGED prompt_out
           ELSE IF UsesPrompt(t, editor, isatty, media)
           THEN /\ \E out \in PromptOutputs :
                      /\ prompt_out' = out
                      /\ status_text' = out
                /\ text_source' = "prompt"
                /\ UNCHANGED editor_out
           ELSE /\ status_text' = t
                /\ text_source' = IF ~Truthy(text) /\ ~isatty THEN "stdin" ELSE "argument"
                /\ UNCHANGED << editor_out, prompt_out >>
    /\ pc' = "sched"
    /\ UNCHANGED << server, text, editor, isatty, stdin, media, description, thumbnail,
                    scheduled_at, scheduled_in, utcnow, uploaded_media, media_ids,
                    resolved_at, clock, start_time, idx, cur_url, error,
                    upload_calls, seen_url, fetched, get_media_calls, sleeps, slept_for,
                    recFetches, recSleeps, echo_waiting, post_calls, tmp_deleted >>

\* ---------------------------------------------------------------- _get_scheduled_at
HasDuration(si) == si # NoDuration /\ si # 0

AddSeconds(dt, secs) == [sec |-> dt.sec + secs, usec |-> dt.usec]

KeepMicroseconds(dt) == dt

DropMicroseconds(dt) == [sec |-> dt.sec, usec |-> 0]

\* datetime.isoformat(): the seconds, and the microseconds when they are not zero.
IsoFormat(dt) == [kind |-> "iso", str |-> << >>, sec |-> dt.sec, usec |-> dt.usec]

Given(str) == [kind |-> "given", str |-> str, sec |-> 0, usec |-> 0]

Absent == [kind |-> "none", str |-> << >>, sec |-> 0, usec |-> 0]

ReadsClock(sa, si) == ~Truthy(sa) /\ HasDuration(si)

ScheduledAtResult(sa, si, now) ==
    IF Truthy(sa) THEN Given(sa)
    ELSE IF HasDuration(si) THEN IsoFormat(DropMicroseconds(AddSeconds(now, si)))
    ELSE Absent

GetScheduledAt ==
    /\ pc = "sched"
    /\ \E now \in (IF ReadsClock(scheduled_at, scheduled_in) THEN NowValues ELSE { NoTime }) :
          /\ utcnow' = now
          /\ resolved_at' = ScheduledAtResult(scheduled_at, scheduled_in, now)
    /\ pc' = "submit"
    /\ UNCHANGED << server, text, editor, isatty, stdin, media, description, thumbnail,
                    scheduled_at, scheduled_in, uploaded_media, media_ids,
                    status_text, clock, start_time, idx, cur_url, error,
                    upload_calls, seen_url, fetched, get_media_calls, sleeps, slept_for,
                    recFetches, recSleeps, echo_waiting, post_calls, text_source,
                    editor_out, prompt_out, tmp_deleted >>

\* ---------------------------------------------------------------- post(), lines 142-174
EmptyPost(body, ids) == ~Truthy(body) /\ ids = << >>

FinishWithoutCleanup ==
    /\ UNCHANGED tmp_deleted
    /\ pc' = "done"

\* Lines 163-174: the result is printed and delete_tmp_status_file() runs.
Finish ==
    /\ tmp_deleted' = TRUE
    /\ pc' = "done"

Submit ==
    /\ pc = "submit"
    /\ IF EmptyPost(status_text, media_ids)
       THEN /\ Fail(ErrEmpty)
            /\ UNCHANGED << post_calls, tmp_deleted >>
       ELSE /\ post_calls' = Append(post_calls, [text |-> status_text,
                                                 media_ids |-> media_ids,
                                                 scheduled_at |-> resolved_at])
            /\ Finish
            /\ UNCHANGED error
    /\ UNCHANGED << server, text, editor, isatty, stdin, media, description, thumbnail,
                    scheduled_at, scheduled_in, utcnow, uploaded_media, media_ids,
                    status_text, resolved_at, clock, start_time, idx, cur_url,
                    upload_calls, seen_url, fetched, get_media_calls, sleeps, slept_for,
                    recFetches, recSleeps, echo_waiting, text_source,
                    editor_out, prompt_out >>

\* ---------------------------------------------------------------- the command
\* The state of a fresh invocation, given its arguments and environment.
Invocation(srv, t, ed, tty, input, m, d, th, sa, si) ==
    /\ pc = "start"
    /\ server = srv
    /\ text = t
    /\ editor = ed
    /\ isatty = tty
    /\ stdin = input
    /\ media = m
    /\ description = d
    /\ thumbnail = th
    /\ scheduled_at = sa
    /\ scheduled_in = si
    /\ utcnow = NoTime
    /\ uploaded_media = << >>
    /\ media_ids = << >>
    /\ status_text = None
    /\ resolved_at = Absent
    /\ clock = 0
    /\ start_time = 0
    /\ idx = 0
    /\ cur_url = FALSE
    /\ error = None
    /\ upload_calls = << >>
    /\ seen_url = { }
    /\ fetched = { }
    /\ get_media_calls = 0
    /\ sleeps = 0
    /\ slept_for = { }
    /\ recFetches = 0
    /\ recSleeps = 0
    /\ echo_waiting = FALSE
    /\ post_calls = << >>
    /\ text_source = "none"
    /\ editor_out = None
    /\ prompt_out = None
    /\ tmp_deleted = FALSE

\* Invocations against a server that answers uploads with the URL populated:
\* every combination of text, terminal, editor, piped input and list lengths.
InitInputs ==
    \E t \in TextValues, ed \in EditorValues, tty \in BOOLEAN,
       n \in 0..MaxMedia, nd \in 0..MaxList, nt \in 0..MaxList :
       \E input \in (IF tty THEN { << >> } ELSE StdinValues) :
          Invocation("instant", t, ed, tty, input, Files(n), Descs(nd), Thumbs(nt),
                     None, NoDuration)

\* Invocations against a server that processes media asynchronously: every
\* batch size with a plain text argument, and a single file with every
\* combination of text, terminal, editor and piped input.
InitAsync ==
    \/ \E n \in 1..MaxAttachments :
          Invocation("async", << "a" >>, None, TRUE, << >>, Files(n), << >>, << >>,
                     None, NoDuration)
    \/ \E t \in TextValues, ed \in EditorValues, tty \in BOOLEAN, nd \in 0..1, nt \in 0..1 :
          \E input \in (IF tty THEN { << >> } ELSE StdinValues) :
             Invocation("async", t, ed, tty, input, Files(1), Descs(nd), Thumbs(nt),
                        None, NoDuration)

\* Invocations that vary the scheduling options.
InitScheduled ==
    \E sa \in ScheduledAtValues, si \in ScheduledInValues :
       Invocation("instant", << "a" >>, None, TRUE, << >>, << >>, << >>, << >>, sa, si)

Init == InitInputs \/ InitAsync \/ InitScheduled

Next ==
    \/ PostValidate
    \/ Upload
    \/ WaitAll
    \/ WaitItem
    \/ Poll
    \/ GetStatusText
    \/ GetScheduledAt
    \/ Submit

Spec == Init /\ [][Next]_vars

\* post() runs to completion: no step that can be taken is postponed forever.
FairSpec == Init /\ [][Next]_vars /\ WF_vars(Next)

Terminated == pc \in { "done", "failed" }

\* ================================================================ claims

UsageErrors == { ErrEditor, ErrTooMany, ErrEmpty }

NoNetworkCall ==
    /\ upload_calls = << >>
    /\ get_media_calls = 0
    /\ post_calls = << >>

\* C1: every usage error (editor requested while stdin is not a tty, more than
\* 4 media files, empty post) ends the command with that error, and in a run
\* that ends in a usage error upload_media, get_media and post_status have
\* each been called zero times.
C1_UsageErrorsMakeNoNetworkCall ==
    /\ error \in UsageErrors => pc = "failed" /\ NoNetworkCall
    /\ (pc # "start" /\ editor \notin { None, << >> } /\ ~isatty) => error = ErrEditor
    /\ (pc # "start" /\ Len(media) > 4) => error \in { ErrEditor, ErrTooMany }
    /\ post_calls # << >> =>
          (post_calls[1].text \notin { None, << >> } \/ media # << >>)

C1_Witness ==
    /\ error = ErrEmpty
    /\ text_source = "prompt"
    /\ pc = "failed"

C3_PostOnlyAfterAllProcessed ==
    /\ post_calls # << >> =>
          /\ Len(uploaded_media) = Len(media)
          /\ \A i \in 1..Len(media) : MediaId(media[i]) \in seen_url
    /\ error = ErrTimeout => pc = "failed" /\ post_calls = << >>

C3_Witness ==
    /\ post_calls # << >>
    /\ server = "async"
    /\ Len(media) >= 2
    /\ Cardinality(fetched) >= 2
    /\ sleeps >= 3

\* C4: the command always terminates; a record being polled is eventually seen
\* with a URL or the timeout error is raised; the deadline is that of the whole
\* batch, so the number of 1-second sleeps over all records is at most
\* timeout + 1 and no sleep starts after the deadline has passed.
C4_WaiterTerminatesSharedDeadline ==
    /\ <>Terminated
    /\ (pc = "poll" /\ ~cur_url) ~> ((pc = "poll" /\ cur_url) \/ error = ErrTimeout)
    /\ [](sleeps <= Timeout + 1)
    /\ [](pc \in { "wait_item", "poll" } => clock <= start_time + Timeout)

C4_Witness ==
    /\ error = ErrTimeout
    /\ sleeps = Timeout + 1
    /\ idx = 3
    /\ Len(media) = 4

\* C5: a record whose upload result carries a populated URL is never fetched
\* with get_media and no sleep is taken for it; when every uploaded record has
\* a URL (the empty batch included) there is no sleep, no get_media call and no
\* "Waiting..." message, and the per-record loop is never entered.
C5_PollsOnlyUnprocessedRecords ==
    /\ \A i \in 1..Len(uploaded_media) :
          uploaded_media[i].url =>
             /\ uploaded_media[i].id \notin fetched
             /\ uploaded_media[i].id \notin slept_for
    /\ (\A i \in 1..Len(uploaded_media) : uploaded_media[i].url) =>
          /\ sleeps = 0
          /\ get_media_calls = 0
          /\ ~echo_waiting
          /\ pc \notin { "wait_item", "poll" }

C5_Witness ==
    /\ pc = "text"
    /\ Len(media) = 3
    /\ uploaded_media[1].url
    /\ ~uploaded_media[2].url
    /\ uploaded_media[3].url
    /\ fetched = { uploaded_media[2].id }
    /\ sleeps = 2

\* C6 as stated, in particular: whenever a non-empty explicit text argument is
\* given, the body submitted is exactly that argument.
C6_Original_ExplicitTextIsBody ==
    (post_calls # << >> /\ text \notin { None, << >> }) => post_calls[1].text = text

\* C6 as amended: on a terminal with an editor requested the body is what the
\* editor session returned (the explicit text only seeds it); otherwise the
\* body is the explicit text when it is non-empty, else the piped input without
\* its trailing whitespace when stdin is not a terminal, else what the
\* interactive prompt returned when no media is attached, else the empty text.
C6_BodyPrecedence ==
    post_calls # << >> =>
       LET body == post_calls[1].text
           hasText == text \notin { None, << >> }
           hasEditor == editor \notin { None, << >> }
       IN  /\ (isatty /\ hasEditor) => (body = editor_out /\ text_source = "editor")
           /\ (~(isatty /\ hasEditor) /\ hasText) => body = text
           /\ (~hasText /\ ~isatty) =>
                 \E k \in 0..Len(stdin) :
                    /\ body = SubSeq(stdin, 1, k)
                    /\ k = 0 \/ stdin[k] # " "
                    /\ \A j \in (k + 1)..Len(stdin) : stdin[j] = " "
           /\ (isatty /\ ~hasEditor /\ ~hasText /\ media = << >>) => body = prompt_out
           /\ (isatty /\ ~hasEditor /\ ~hasText /\ media # << >>) => body = text

C6_Witness ==
    /\ post_calls # << >>
    /\ text = << "a" >>
    /\ text_source = "editor"
    /\ post_calls[1].text = << "e" >>

\* C7: upload_media is called once per media file, in input order, all before
\* the waiter starts; file i goes with description[i] stripped and thumbnail[i]
\* when those lists are long enough and with none otherwise; the id list given
\* to post_status has the length and order of the media list.
C7_UploadPairsByIndex ==
    /\ Len(upload_calls) <= Len(media)
    /\ Len(upload_calls) = Len(uploaded_media)
    /\ \A i \in 1..Len(upload_calls) :
          /\ upload_calls[i].file = media[i]
          /\ upload_calls[i].description =
                (IF i <= Len(description) THEN Repeat("d", i) ELSE None)
          /\ upload_calls[i].thumbnail =
                (IF i <= Len(thumbnail) THEN 100 + i ELSE 0)
    /\ (pc \in { "wait_item", "poll", "text", "sched", "submit", "done" }
           \/ get_media_calls > 0 \/ error \in { ErrTimeout, ErrEmpty }) =>
          Len(upload_calls) = Len(media)
    /\ post_calls # << >> =>
          /\ Len(post_calls[1].media_ids) = Len(media)
          /\ \A i \in 1..Len(media) :
                post_calls[1].media_ids[i] = uploaded_media[i].id
          /\ \A i \in 1..Len(media) : uploaded_media[i].id = 20 + media[i]

C7_Witness ==
    /\ pc = "done"
    /\ Len(media) = 4
    /\ Len(description) = 2
    /\ Len(thumbnail) = 1

\* C8: the scheduling resolver returns the scheduled_at string unchanged when
\* one is given (an empty string counts as not given) without reading the
\* clock or the duration; otherwise, when a duration is given, the UTC time it
\* read plus the duration in seconds, with zero microseconds; otherwise
\* nothing, and post_status receives what the resolver returned.
C8_ScheduledAtResolution ==
    /\ pc \in { "submit", "done" } =>
          IF scheduled_at \notin { None, << >> }
          THEN /\ resolved_at.kind = "given"
               /\ resolved_at.str = scheduled_at
               /\ utcnow = NoTime
          ELSE IF scheduled_in # NoDuration
          THEN /\ resolved_at.kind = "iso"
               /\ resolved_at.sec = utcnow.sec + scheduled_in
               /\ resolved_at.usec = 0
               /\ utcnow \in NowValues
          ELSE resolved_at.kind = "none"
    /\ post_calls # << >> => post_calls[1].scheduled_at = resolved_at

C8_Witness ==
    /\ pc = "done"
    /\ scheduled_at = << >>
    /\ scheduled_in = 300
    /\ utcnow = [sec |-> 1000, usec |-> 500000]
    /\ post_calls[1].scheduled_at.sec = 1300

\* C9 as stated: every get_media call of the waiter follows a sleep taken for
\* that record, so a record checked after its k-th fetch has cost k sleeps.
C9_Original_SleepBeforeEveryFetch ==
    pc = "poll" => recSleeps = recFetches

\* C9 as amended: the first get_media call for a record is made at once; each
\* later one follows one 1-second sleep and the deadline test, so a record
\* whose URL is populated at its k-th fetch has cost k - 1 sleeps.
C9_FetchThenSleep ==
    /\ pc = "poll" => (recFetches >= 1 /\ recSleeps = recFetches - 1)
    /\ error = ErrTimeout => recSleeps = recFetches

C9_Witness ==
    /\ pc = "poll"
    /\ cur_url
    /\ recFetches = 3
    /\ recSleeps = 2

\* C10: the timeout is raised for a record only after that record has been
\* fetched at least once and a sleep has been taken for it, and only when its
\* latest fetch showed no URL: a record whose fetch shows a populated URL is
\* never failed, whatever time has elapsed.
C10_TimeoutOnlyAfterPolling ==
    /\ error = ErrTimeout =>
          /\ recFetches >= 1
          /\ recSleeps >= 1
          /\ uploaded_media[idx].id \in fetched
          /\ uploaded_media[idx].id \in slept_for
          /\ ~cur_url
    /\ (pc = "poll" /\ cur_url) => error = None

C10_Witness ==
    /\ pc = "poll"
    /\ cur_url
    /\ idx = 2
    /\ recFetches = 1
    /\ clock = start_time + Timeout

====
